---- MODULE Spec2Model ----
(***************************************************************************)
(* Bio.TogoWS: the rate-limited, self-validating client of the TogoWS REST *)
(* service (src/Bio/TogoWS/__init__.py).                                   *)
(*                                                                         *)
(* Strings are sequences of tokens: a name ("ddbj"), a separator ("/"),    *)
(* a space, a newline, or one of the literals the code tests for.  String  *)
(* concatenation is \o, "%s" formatting is substitution of a token         *)
(* sequence.  Time is counted in ticks; one tick is a third of the         *)
(* throttle delay.  None is <<>> and a present value v is <<v>>; an absent *)
(* or empty string argument (both false in "if field:") is <<>>.           *)
(***************************************************************************)
EXTENDS Integers, Sequences, FiniteSets, TLC

VARIABLES
    clock,              \* time.time()
    previous,           \* _open.previous
    _search_db_names,   \* cache: the search database list, or None
    _fetch_db_names,    \* cache: the fetch database list, or None
    _fetch_db_fields,   \* cache: db -> field list (<<>>: no such key)
    _fetch_db_formats,  \* cache: db -> format list (<<>>: no such key)
    call,               \* the latest public call: arguments, requests, outcome
    nDisc,              \* history: discovery requests answered, per cache key
    lastDispatch,       \* history: time of the latest urlopen (<<>>: none yet)
    shortestGap,        \* history: shortest time between two consecutive urlopens
    iter,               \* the tsearch_iter generator object
    threads,            \* the threads that call _open: their place in it
    files,              \* the file system and the caller's handle: key -> content
    io                  \* the latest call of Bio.Ontology.IO: arguments, outcome

vars == <<clock, previous, _search_db_names, _fetch_db_names, _fetch_db_fields,
          _fetch_db_formats, call, nDisc, lastDispatch, shortestGap, iter,
          threads, files, io>>

-----------------------------------------------------------------------------
(* Bounds of the model.                                                    *)

MaxClock == 15        \* time horizon of the calls, in ticks
MaxOversleep == 1     \* ticks time.sleep may sleep longer than asked
MaxDisc == 2          \* discovery requests counted per cache key
MaxTotal == 4         \* largest total the count endpoint reports
MaxBatch == 3         \* largest batch size given to tsearch_iter
MaxPad == 11          \* most leading lines put before the tail of a body
MaxTail == 2          \* tokens in the tail of a body
MaxThreads == 2       \* threads that call _open
MaxWritten == 1       \* most renderings written to one file or handle

(* Program constants.                                                      *)

Delay == 3            \* delay = 0.333333333, in ticks
SniffLines == 10      \* range(10): lines read ahead by _open

None == <<>>
Some(v) == <<v>>

NoGap == 0 - 1        \* shortestGap before two requests have been sent

Min(a, b) == IF a <= b THEN a ELSE b

Range(s) == {s[i] : i \in 1..Len(s)}

-----------------------------------------------------------------------------
(* Strings.                                                                *)

SP == " "
NL == "\n"
ErrorMark == "Error: "
ErrorTitle == "<title>We're sorry, but something went wrong</title>"

IsSpace(c) == c \in {SP, NL}

\* str.join: the strings of a list, one after the other, sep between them
RECURSIVE join(_, _)
join(sep, list) ==
    IF list = <<>> THEN <<>>
    ELSE IF Len(list) = 1 THEN list[1]
    ELSE list[1] \o sep \o join(sep, Tail(list))

\* str.strip: without leading and trailing whitespace
RECURSIVE strip(_)
strip(s) ==
    IF s = <<>> THEN s
    ELSE IF IsSpace(s[1]) THEN strip(Tail(s))
    ELSE IF IsSpace(s[Len(s)]) THEN strip(SubSeq(s, 1, Len(s) - 1))
    ELSE s

\* the longest prefix of s without whitespace
RECURSIVE Word(_)
Word(s) ==
    IF s = <<>> \/ IsSpace(s[1]) THEN <<>> ELSE <<s[1]>> \o Word(Tail(s))

\* str.split(): the list of the maximal runs of non-whitespace
RECURSIVE split(_)
split(s) ==
    IF s = <<>> THEN <<>>
    ELSE IF IsSpace(s[1]) THEN split(Tail(s))
    ELSE LET w == Word(s)
         IN  <<w>> \o split(SubSeq(s, Len(w) + 1, Len(s)))

\* str.startswith
startswith(s, prefix) ==
    /\ Len(s) >= Len(prefix)
    /\ SubSeq(s, 1, Len(prefix)) = prefix

\* "x in s" for a literal x that is one token
contains(s, literal) == literal \in Range(s)

\* int(): the number a decimal token writes
int(s) == CHOOSE n \in 0..(MaxTotal + 1) : <<ToString(n)>> = s

-----------------------------------------------------------------------------
(* Bio.File.UndoHandle: a stream with pushed-back lines.                   *)

UndoHandle(stream) == [saved |-> <<>>, stream |-> stream]

\* file.readline: up to and including the first newline, "" at the end
RECURSIVE FirstLine(_)
FirstLine(s) ==
    IF s = <<>> THEN <<>>
    ELSE IF s[1] = NL THEN <<NL>>
    ELSE <<s[1]>> \o FirstLine(Tail(s))

\* UndoHandle.readline: <<the line, the handle afterwards>>
readline(h) ==
    IF h.saved # <<>>
    THEN <<Head(h.saved), [h EXCEPT !.saved = Tail(h.saved)]>>
    ELSE LET line == FirstLine(h.stream)
         IN  <<line, [h EXCEPT !.stream = SubSeq(h.stream, Len(line) + 1, Len(h.stream))]>>

\* UndoHandle.saveline: push a line back, an empty line is dropped
saveline(h, line) ==
    IF line # <<>> THEN [h EXCEPT !.saved = <<line>> \o h.saved] ELSE h

\* UndoHandle.read: the pushed-back lines, then the rest of the stream
read(h) == join(<<>>, h.saved) \o h.stream

-----------------------------------------------------------------------------
(* The service, as the client sees it: the body it answers a request with  *)
(* when it is healthy, and the bodies of its failures.                     *)

DDBJ == <<"ddbj">>
PUBMED == <<"pubmed">>
DBs == {DDBJ, PUBMED}

ServerEntryDbs == <<DDBJ>>                     \* GET /entry
ServerSearchDbs == <<PUBMED>>                  \* GET /search
ServerFields == << <<"au">>, <<"ti">> >>       \* GET /entry/{db}?fields
ServerFormats == << <<"fasta">>, <<"gff">> >>  \* GET /entry/{db}?formats

\* a plain text list of values, one per line
ListBody(list) == join(<<>>, [i \in 1..Len(list) |-> list[i] \o <<NL>>])

RecordBody == <<"record", NL>>

\* the bodies _open takes for a failure of the service
ErrorBodies ==
    { <<>>,
      <<SP>>,
      <<ErrorMark, "Invalid database.">>,
      <<ErrorTitle, NL>> }

-----------------------------------------------------------------------------
(* Request URLs.                                                           *)

EntryDbsUrl == <<"http://togows.dbcls.jp/entry">>
SearchDbsUrl == <<"http://togows.dbcls.jp/search">>
EntryFieldsUrl(db) == <<"http://togows.dbcls.jp/entry/">> \o db \o <<"?fields">>
EntryFormatsUrl(db) == <<"http://togows.dbcls.jp/entry/">> \o db \o <<"?formats">>

DiscoveryUrls ==
    {EntryDbsUrl, SearchDbsUrl}
        \cup {EntryFieldsUrl(db) : db \in DBs} \cup {EntryFormatsUrl(db) : db \in DBs}

-----------------------------------------------------------------------------
(* A call runs on a record of the module state and of the call's own       *)
(* outcome.  Its field e is what the environment does during the call:     *)
(* e.over[k] is the time the k-th sleep of the call oversleeps, e.fail the *)
(* request of the call (0: none) that the service answers with e.bad.      *)

\* a call of at most n requests: the service answers every request, or fails
\* one of them with a body of bad; every sleep is exact
Envs(n, bad) ==
    [over : {[k \in 1..n |-> 0]}, fail : {0}, bad : {<<>>}]
        \cup [over : {[k \in 1..n |-> 0]}, fail : 1..n, bad : bad]

\* the same, and each sleep oversleeps by 0..MaxOversleep
TimedEnvs(n, bad) ==
    [over : [1..n -> 0..MaxOversleep], fail : {0}, bad : {<<>>}]
        \cup [over : [1..n -> 0..MaxOversleep], fail : 1..n, bad : bad]

World(e) ==
    [clock |-> clock, previous |-> previous,
     _search_db_names |-> _search_db_names, _fetch_db_names |-> _fetch_db_names,
     _fetch_db_fields |-> _fetch_db_fields, _fetch_db_formats |-> _fetch_db_formats,
     nDisc |-> nDisc, lastDispatch |-> lastDispatch, shortestGap |-> shortestGap,
     sent |-> <<>>,      \* the requests of this call: [url, post]
     warned |-> FALSE,   \* warnings.warn was called
     exc |-> None,       \* the exception raised: [type, msg]
     ret |-> None,       \* the value returned by the last function
     body |-> None,      \* the body of the last response
     nsleep |-> 0,       \* sleeps of this call
     open |-> {},        \* the handles _open returned that are not closed, by request
     e |-> e]            \* the environment of this call

ok(w) == w.exc = None

Raise(w, type, msg) == [w EXCEPT !.exc = Some([type |-> type, msg |-> msg])]

warn(w) == [w EXCEPT !.warned = TRUE]

\* lines.append(uhandle.readline()), n times: <<lines, handle>>
RECURSIVE ReadLines(_, _)
ReadLines(h, n) ==
    IF n = 0 THEN <<<<>>, h>>
    ELSE LET r == readline(h)
             t == ReadLines(r[2], n - 1)
         IN  <<<<r[1]>> \o t[1], t[2]>>

\* uhandle.saveline(lines[i]) for i = n down to 1
RECURSIVE SaveLines(_, _, _)
SaveLines(h, lines, n) ==
    IF n = 0 THEN h ELSE SaveLines(saveline(h, lines[n]), lines, n - 1)

\* Signature without the test for a single space
Signature_nospace(data, url) ==
    IF data = <<>>
    THEN Some([type |-> "IOError",
               msg |-> <<"TogoWS replied with no data:\n%s % url">>])
    ELSE IF startswith(data, <<ErrorMark>>)
    THEN Some([type |-> "IOError",
               msg |-> <<"TogoWS replied with an error message:\n\n">> \o data
                           \o <<"\n\n">> \o url])
    ELSE IF contains(data, ErrorTitle)
    THEN Some([type |-> "IOError",
               msg |-> <<"TogoWS replied: We're sorry, but something went wrong:\n">>
                           \o url])
    ELSE None

\* the error _open raises for the sniffed data, None when it raises none
Signature(data, url) ==
    IF data = <<>>
    THEN Some([type |-> "IOError",
               msg |-> <<"TogoWS replied with no data:\n%s % url">>])
    ELSE IF data = <<SP>>
    THEN Some([type |-> "IOError",
               msg |-> <<"TogoWS replied with just a single space:\n">> \o url])
    ELSE IF startswith(data, <<ErrorMark>>)
    THEN Some([type |-> "IOError",
               msg |-> <<"TogoWS replied with an error message:\n\n">> \o data
                           \o <<"\n\n">> \o url])
    ELSE IF contains(data, ErrorTitle)
    THEN Some([type |-> "IOError",
               msg |-> <<"TogoWS replied: We're sorry, but something went wrong:\n">>
                           \o url])
    ELSE None

\* Throttle that stamps the end of the interval, not its start
Throttle_nextslot(current, prev, over) ==
    LET wait == prev + Delay - current
    IN  IF wait > 0
        THEN [slept |-> TRUE, now |-> current + wait + over,
              previous |-> current + wait + Delay]
        ELSE [slept |-> FALSE, now |-> current, previous |-> current + Delay]

\* lines 251-258: the time.sleep(wait) returns, and the value of _open.previous
\* afterwards.  over is the time the sleep takes beyond wait.
Throttle(current, prev, over) ==
    LET wait == prev + Delay - current
    IN  IF wait > 0
        THEN [slept |-> TRUE, now |-> current + wait + over, previous |-> current + wait]
        ELSE [slept |-> FALSE, now |-> current, previous |-> current]

\* lines 254-258: the clock and _open.previous after the throttle t
Throttled(w, t) ==
    [w EXCEPT !.clock = t.now,
              !.previous = t.previous,
              !.nsleep = IF t.slept THEN @ + 1 ELSE @]

\* the time from the previous request to a request sent now
Gap(w) == IF w.lastDispatch = None THEN NoGap ELSE w.clock - w.lastDispatch[1]

\* urlopen that is never given the post data
urlopen_nopost(w, url, post, payload) ==
    [w EXCEPT
        !.sent = Append(@, [url |-> url, post |-> None]),
        !.body = Some(IF w.e.fail = Len(w.sent) + 1 THEN w.e.bad ELSE payload),
        !.lastDispatch = Some(w.clock),
        !.shortestGap = IF @ = NoGap THEN Gap(w)
                        ELSE IF Gap(w) = NoGap THEN @ ELSE Min(@, Gap(w))]

\* lines 261-264: urllib.urlopen sends the request, the service answers it with
\* payload, or with the body of its failure
urlopen(w, url, post, payload) ==
    [w EXCEPT
        !.sent = Append(@, [url |-> url, post |-> post]),
        !.body = Some(IF w.e.fail = Len(w.sent) + 1 THEN w.e.bad ELSE payload),
        !.lastDispatch = Some(w.clock),
        !.shortestGap = IF @ = NoGap THEN Gap(w)
                        ELSE IF Gap(w) = NoGap THEN @ ELSE Min(@, Gap(w))]

\* Sniffed without the saveline loop: the lines read ahead stay consumed
Sniffed_nopushback(sniff) ==
    [data |-> join(<<>>, sniff[1]), uhandle |-> sniff[2]]

\* lines 274-276: the lines read ahead are pushed back: [data, uhandle]
Sniffed(sniff) ==
    [data |-> join(<<>>, sniff[1]),
     uhandle |-> SaveLines(sniff[2], sniff[1], SniffLines)]

\* lines 267-276: the handle is wrapped and its first lines are read ahead
Sniff(body) == Sniffed(ReadLines(UndoHandle(body), SniffLines))

\* lines 278-297: raise error, or return the handle when there is none
Gate(w, url, uhandle, error) ==
    [w EXCEPT
        !.nDisc = IF url \in DiscoveryUrls /\ error = None
                  THEN [@ EXCEPT ![url] = @ + 1] ELSE @,
        !.exc = error,
        !.ret = IF error = None THEN Some(uhandle) ELSE None,
        !.open = IF error = None THEN @ \cup {Len(w.sent)} ELSE @]

\* lines 278-297: the sniffed data s against the error signatures
Response(w, url, s) == Gate(w, url, s.uhandle, Signature(s.data, url))

\* lines 266-297: the response of the request just sent
Reply(w, url) == Response(w, url, Sniff(w.body[1]))

\* lines 252-258: the throttle of this call, on its clock
Sleep(w) == Throttled(w, Throttle(w.clock, w.previous, w.e.over[w.nsleep + 1]))

\* _open(url, post): throttle, request, sniff.  payload is the body a healthy
\* service answers this request with.
_open(w, url, post, payload) == Reply(urlopen(Sleep(w), url, post, payload), url)

\* lines 46-47: fields = handle.read().strip().split(), handle.close()
Fields(r) ==
    IF ok(r)
    THEN [r EXCEPT !.ret = Some(split(strip(read(r.ret[1])))),
                   !.open = @ \ {Len(r.sent)}]
    ELSE r

\* _get_fields(url): the list of values of a plain text response
_get_fields(w, url, payload) == Fields(_open(w, url, None, payload))

_get_entry_dbs(w) == _get_fields(w, EntryDbsUrl, ListBody(ServerEntryDbs))

_get_entry_fields(w, db) ==
    _get_fields(w, EntryFieldsUrl(db), ListBody(ServerFields))

_get_entry_formats(w, db) ==
    _get_fields(w, EntryFormatsUrl(db), ListBody(ServerFormats))

-----------------------------------------------------------------------------
(* The public functions.  A statement runs on the record the statement     *)
(* before it leaves, and leaves it as it is once an exception is raised.   *)

\* an id argument: a string, or a list of strings
Str(v) == [list |-> FALSE, v |-> v]
List(v) == [list |-> TRUE, v |-> v]

\* EntryUrl that joins the identifiers of a list without the comma
EntryUrl_nocomma(db, id, format, field) ==
    LET ids == IF id.list THEN join(<<>>, id.v) ELSE id.v
        url == <<"http://togows.dbcls.jp/entry/">> \o db \o <<"/">> \o ids
        url2 == IF field # <<>> THEN url \o <<"/">> \o field ELSE url
    IN  IF format # <<>> THEN url2 \o <<".">> \o format ELSE url2

\* lines 115-121
EntryUrl(db, id, format, field) ==
    LET ids == IF id.list THEN join(<<",">>, id.v) ELSE id.v
        url == <<"http://togows.dbcls.jp/entry/">> \o db \o <<"/">> \o ids
        url2 == IF field # <<>> THEN url \o <<"/">> \o field ELSE url
    IN  IF format # <<>> THEN url2 \o <<".">> \o format ELSE url2

\* line 89: _fetch_db_names = the value _get_entry_dbs returned
SetFetchDbNames(r) == IF ok(r) THEN [r EXCEPT !._fetch_db_names = r.ret] ELSE r

\* tfetch, lines 88-89: the fetch database list, discovered once
FetchDbNames(w) ==
    IF w._fetch_db_names = None THEN SetFetchDbNames(_get_entry_dbs(w)) ELSE w

\* FetchDbCheck that warns, as the search functions do
FetchDbCheck_warns(w, db) ==
    IF ok(w) /\ db \notin Range(w._fetch_db_names[1]) THEN warn(w) ELSE w

\* tfetch, lines 90-92: a database that is not listed is refused
FetchDbCheck(w, db) ==
    IF ok(w) /\ db \notin Range(w._fetch_db_names[1])
    THEN Raise(w, "ValueError",
               <<"TogoWS entry fetch does not officially support database '">>
                   \o db \o <<"'.">>)
    ELSE w

\* line 98: _fetch_db_fields[db] = fields
SetFields(r, db) == IF ok(r) THEN [r EXCEPT !._fetch_db_fields[db] = r.ret] ELSE r

\* lines 94-98: fields, from the cache or discovered
FieldList(w, db) ==
    IF w._fetch_db_fields[db] # None
    THEN [w EXCEPT !.ret = w._fetch_db_fields[db]]
    ELSE SetFields(_get_entry_fields(w, db), db)

\* FieldCheck that raises ValueError, as the format check does
FieldCheck_raises(s, db, field) ==
    IF ok(s) /\ field \notin Range(s.ret[1])
    THEN Raise(s, "ValueError",
               <<"TogoWS entry fetch does not explicitly support field '">>
                   \o field \o <<"' for database '">> \o db \o <<"'.">>)
    ELSE s

\* lines 99-104: a field that is not in fields is warned about
FieldCheck(s, db, field) ==
    IF ok(s) /\ field \notin Range(s.ret[1]) THEN warn(s) ELSE s

\* tfetch, lines 93-104: the field against the field list of db
FetchField(w, db, field) ==
    IF ok(w) /\ field # <<>> THEN FieldCheck(FieldList(w, db), db, field) ELSE w

\* line 110: _fetch_db_fields[db] = formats
SetFormats(r, db) == IF ok(r) THEN [r EXCEPT !._fetch_db_fields[db] = r.ret] ELSE r

\* lines 106-110: formats, from the cache or discovered
FormatList(w, db) ==
    IF w._fetch_db_formats[db] # None
    THEN [w EXCEPT !.ret = w._fetch_db_formats[db]]
    ELSE SetFormats(_get_entry_formats(w, db), db)

\* lines 111-113: a format that is not in formats is refused
FormatCheck(s, db, format) ==
    IF ok(s) /\ format \notin Range(s.ret[1])
    THEN Raise(s, "ValueError",
               <<"TogoWS entry fetch does not explicitly support format '">>
                   \o format \o <<"' for database '">> \o db \o <<"'.">>)
    ELSE s

\* tfetch, lines 105-113: the format against the format list of db
FetchFormat(w, db, format) ==
    IF ok(w) /\ format # <<>> THEN FormatCheck(FormatList(w, db), db, format) ELSE w

\* tfetch, lines 115-122: the entry request
FetchEntry(w, db, id, format, field) ==
    IF ok(w) THEN _open(w, EntryUrl(db, id, format, field), None, RecordBody) ELSE w

tfetch(w0, db, id, format, field) ==
    FetchEntry(FetchFormat(FetchField(FetchDbCheck(FetchDbNames(w0), db), db, field),
                           db, format),
               db, id, format, field)

\* lines 135 and 200: _search_db_names = the value _get_fields returned
SetSearchDbNames(r) == IF ok(r) THEN [r EXCEPT !._search_db_names = r.ret] ELSE r

\* tsearch, lines 199-200 (and tsearch_count, 134-135): the search database
\* list, discovered once
SearchDbNames(w) ==
    IF w._search_db_names = None
    THEN SetSearchDbNames(_get_fields(w, SearchDbsUrl, ListBody(ServerSearchDbs)))
    ELSE w

\* SearchDbCheck that raises ValueError, as tfetch does
SearchDbCheck_raises(w, db) ==
    IF ok(w) /\ db \notin Range(w._search_db_names[1])
    THEN Raise(w, "ValueError",
               <<"TogoWS search does not officially support database '">>
                   \o db \o <<"'.">>)
    ELSE w

\* lines 136-141 and 201-206: a database that is not listed is warned about
SearchDbCheck(w, db) ==
    IF ok(w) /\ db \notin Range(w._search_db_names[1]) THEN warn(w) ELSE w

SearchUrl(db, query) == <<"http://togows.dbcls.jp/search/">> \o db \o <<"/">> \o query

CountUrl(db, query) == SearchUrl(db, query) \o <<"/count">>

\* lines 208-218
WindowUrl(db, query, offset, count, format) ==
    LET url == SearchUrl(db, query)
        url2 == IF offset # None /\ count # None
                THEN url \o <<"/", ToString(offset[1]), ",", ToString(count[1])>>
                ELSE url
    IN  IF format # <<>> THEN url2 \o <<".">> \o format ELSE url2

\* line 143: the count request; total is the count the service reports
CountRequest(w, db, query, total) ==
    IF ok(w) THEN _open(w, CountUrl(db, query), None, <<ToString(total), NL>>) ELSE w

\* lines 144-145: count = int(handle.read().strip()), handle.close()
Count(r) ==
    IF ok(r)
    THEN [r EXCEPT !.ret = Some(int(strip(read(r.ret[1])))),
                   !.open = @ \ {Len(r.sent)}]
    ELSE r

\* tsearch_count(db, query)
tsearch_count(w0, db, query, total) ==
    Count(CountRequest(SearchDbCheck(SearchDbNames(w0), db), db, query, total))

\* tsearch, lines 209-216: offset and count come together and are positive
SearchWindowCheck(w, offset, count) ==
    IF ~ok(w) THEN w
    ELSE IF offset # None /\ count # None
    THEN IF offset[1] <= 0
         THEN Raise(w, "ValueError", <<"Offset should be at least one">>)
         ELSE IF count[1] <= 0
         THEN Raise(w, "ValueError", <<"Count should be at least one">>)
         ELSE w
    ELSE IF offset # None \/ count # None
    THEN Raise(w, "ValueError",
               <<"Expect BOTH offset AND count to be provided (or neither)">>)
    ELSE w

\* tsearch, lines 208-220: the search request; ids is the list of identifiers
\* the service answers with
SearchRequest(w, db, query, offset, count, format, ids) ==
    IF ok(w)
    THEN _open(w, WindowUrl(db, query, offset, count, format), None, ListBody(ids))
    ELSE w

\* tsearch(db, query, offset, count, format)
tsearch(w0, db, query, offset, count, format, ids) ==
    SearchRequest(SearchWindowCheck(SearchDbCheck(SearchDbNames(w0), db), offset, count),
                  db, query, offset, count, format, ids)

\* a data argument: a string, or a handle (an object with a read method)
Handle(v) == [read |-> TRUE, v |-> v]
Text(v) == [read |-> FALSE, v |-> v]

ConvertUrl(in_format, out_format) ==
    <<"http://togows.dbcls.jp/convert/">> \o in_format \o <<".">> \o out_format

\* tconvert(data, in_format, out_format)
tconvert(w0, data, in_format, out_format) ==
    _open(w0, ConvertUrl(in_format, out_format), Some([data |-> data.v]),
          <<"converted", NL>>)

-----------------------------------------------------------------------------
(* Bio.Ontology.IO (src/Bio/Ontology/IO/__init__.py): write and            *)
(* pretty_print.  The file system maps a file name to its content, None    *)
(* for a file that does not exist; the content of the handle object of the *)
(* caller is kept under its own key.  A call runs on a record of the file  *)
(* system and of the call's own outcome.                                   *)

_FormatToWriter == [obo |-> "OboWriter", gml |-> "GmlWriter"]

_FormatToPrinter ==
    [gml |-> "GmlPrinter", png |-> "GraphVizPrinter", txt |-> "TxtPrinter",
     html |-> "HtmlPrinter"]

\* a file name (a string) or a handle object as the target of a call
FileName(name) == [name |-> TRUE, v |-> name]

HandleObject(key) == [name |-> FALSE, v |-> key]

\* a file_format argument: a string, or an object that is not a string
Format(v) == [basestring |-> TRUE, v |-> v]

NotAString == [basestring |-> FALSE, v |-> "42"]

\* what an earlier write left in a file
Written == <<[by |-> "OboWriter", data |-> "terms", extra |-> None]>>

NoFiles == [k \in {"new.obo", "old.obo", "stream"}
                |-> IF k = "new.obo" THEN None
                    ELSE IF k = "old.obo" THEN Some(Written) ELSE Some(<<>>)]

NoIo ==
    [op |-> "none", args |-> <<>>, pre |-> NoFiles, exc |-> None,
     opened |-> <<>>, invoked |-> <<>>]

IoWorld ==
    [files |-> files, exc |-> None, opened |-> <<>>, invoked |-> <<>>, fp |-> None]

\* the two tests on file_format that come before the target is touched
FormatGiven(o, file_format) ==
    IF ~file_format.basestring
    THEN Raise(o, "TypeError", <<"Need a string for the file format (lower case)">>)
    ELSE IF file_format.v = ""
    THEN Raise(o, "ValueError", <<"Format required (lower case string)">>)
    ELSE o

\* Bio.File.as_handle, entered: a file name is opened in the mode, which for
\* 'w' creates the file or empties it; another object is the handle itself
as_handle(o, handle, mode) ==
    IF ~ok(o) THEN o
    ELSE IF handle.name
    THEN [o EXCEPT !.files[handle.v] = IF mode = "w" THEN Some(<<>>) ELSE @,
                   !.opened = Append(@, [name |-> handle.v, mode |-> mode]),
                   !.fp = Some(handle.v)]
    ELSE [o EXCEPT !.fp = Some(handle.v)]

\* Bio.File.as_handle, left (with or without an exception): the file it
\* opened is closed, the handle of the caller is left open
as_handle_exit(o) == [o EXCEPT !.fp = None]

\* writer_class(fp).write_file(data, version) and
\* writer_class(fp[, params]).pretty_print(enrichment, graph): the writer
\* appends its rendering of the data to the handle
Rendered(o, class, data, extra) ==
    [o EXCEPT !.files[o.fp[1]] = Some(Append(@[1], [by |-> class, data |-> data,
                                                   extra |-> extra])),
              !.invoked = Append(@, class)]

UnknownFormat(o, file_format) ==
    Raise(o, "ValueError", <<"Unknown format '", file_format.v, "'">>)

WriteBody(o, data, file_format, version) ==
    IF ~ok(o) THEN o
    ELSE IF file_format.v \in DOMAIN _FormatToWriter
    THEN Rendered(o, _FormatToWriter[file_format.v], data, version)
    ELSE UnknownFormat(o, file_format)

write(o, data, handle, file_format, version) ==
    as_handle_exit(WriteBody(as_handle(FormatGiven(o, file_format), handle, "w"),
                             data, file_format, version))

PrintBody(o, data, file_format, params) ==
    IF ~ok(o) THEN o
    ELSE IF file_format.v \in DOMAIN _FormatToPrinter
    THEN Rendered(o, _FormatToPrinter[file_format.v], data, params)
    ELSE UnknownFormat(o, file_format)

pretty_print(o, data, handle, file_format, params) ==
    as_handle_exit(PrintBody(as_handle(FormatGiven(o, file_format), handle, "w"),
                             data, file_format, params))

-----------------------------------------------------------------------------
(* The state machine of the facade: one action per public function, and    *)
(* the caller taking the outcome of a call before it makes the next one.   *)

FetchIds ==
    {Str(<<"X52960">>),
     List(<< <<"A1AG1_HUMAN">>, <<"A1AG1_MOUSE">> >>),
     Str(<<"A1AG1_HUMAN", ",", "A1AG1_MOUSE">>)}
FetchFields == {<<>>, <<"au">>, <<"length">>, <<"fasta">>}
FetchFormats == {<<>>, <<"fasta">>, <<"text">>}
Queries == {<<"lung+cancer">>}
Offsets == {None, Some(0), Some(1)}
Counts == {None, Some(0), Some(2)}
SearchFormats == {<<>>, <<"json">>}

\* the service's failure in the calls of the facade
Refusal == {<<ErrorMark, "Invalid database.">>}

\* the result list the service answers a window at offset with, n identifiers
Answer(offset, n) == [i \in 1..n |-> <<ToString(offset + i - 1)>>]

NoCall ==
    [op |-> "none", args |-> <<>>, pre |-> <<>>, sent |-> <<>>, warned |-> FALSE,
     exc |-> None, ret |-> None, body |-> None, open |-> {}]

NoIter == [state |-> "none"]

Threads == 1..MaxThreads

\* a thread that is not in _open
Idle == [pc |-> "idle", current |-> 0, wait |-> 0, wake |-> 0]

Init ==
    /\ clock = Delay
    /\ previous = 0
    /\ _search_db_names = None
    /\ _fetch_db_names = None
    /\ _fetch_db_fields = [db \in DBs |-> None]
    /\ _fetch_db_formats = [db \in DBs |-> None]
    /\ call = NoCall
    /\ nDisc = [u \in DiscoveryUrls |-> 0]
    /\ lastDispatch = None
    /\ shortestGap = NoGap
    /\ iter = NoIter
    /\ threads = [t \in Threads |-> Idle]
    /\ files = NoFiles
    /\ io = NoIo

\* the model follows a call whose effects stay within the bounds
InBounds(w) ==
    /\ w.clock <= MaxClock
    /\ \A u \in DiscoveryUrls : w.nDisc[u] <= MaxDisc

\* the module state after a call
Store(w) ==
    /\ clock' = w.clock
    /\ previous' = w.previous
    /\ _search_db_names' = w._search_db_names
    /\ _fetch_db_names' = w._fetch_db_names
    /\ _fetch_db_fields' = w._fetch_db_fields
    /\ _fetch_db_formats' = w._fetch_db_formats
    /\ nDisc' = w.nDisc
    /\ lastDispatch' = w.lastDispatch
    /\ shortestGap' = w.shortestGap

\* the module state a call started in
Pre ==
    [clock |-> clock, previous |-> previous,
     _search_db_names |-> _search_db_names, _fetch_db_names |-> _fetch_db_names,
     _fetch_db_fields |-> _fetch_db_fields, _fetch_db_formats |-> _fetch_db_formats]

Called(w, op, args) ==
    [op |-> op, args |-> args, pre |-> Pre, sent |-> w.sent, warned |-> w.warned,
     exc |-> w.exc, ret |-> w.ret, body |-> w.body, open |-> w.open]

\* the call op(args) ran to w: the module is as the call leaves it
Ran(w, op, args) ==
    /\ InBounds(w)
    /\ Store(w)
    /\ call' = Called(w, op, args)
    /\ UNCHANGED <<iter, threads, files, io>>

\* time passes between two calls
Tick ==
    /\ call = NoCall
    /\ clock < MaxClock
    /\ clock' = clock + 1
    /\ UNCHANGED <<previous, _search_db_names, _fetch_db_names, _fetch_db_fields,
                   _fetch_db_formats, call, nDisc, lastDispatch, shortestGap, iter,
                   threads, files, io>>

\* the caller has the outcome of the call
Return ==
    /\ call # NoCall
    /\ call' = NoCall
    /\ UNCHANGED <<clock, previous, _search_db_names, _fetch_db_names,
                   _fetch_db_fields, _fetch_db_formats, nDisc, lastDispatch,
                   shortestGap, iter, threads, files, io>>

Fetch(E) ==
    /\ call = NoCall
    /\ \E db \in DBs, id \in FetchIds, format \in FetchFormats, field \in FetchFields,
          e \in E :
           Ran(tfetch(World(e), db, id, format, field), "tfetch",
               [db |-> db, id |-> id, format |-> format, field |-> field])

SearchCount(E) ==
    /\ call = NoCall
    /\ \E db \in DBs, query \in Queries, total \in {0, MaxTotal}, e \in E :
           Ran(tsearch_count(World(e), db, query, total), "tsearch_count",
               [db |-> db, query |-> query])

Search(E) ==
    /\ call = NoCall
    /\ \E db \in DBs, query \in Queries, offset \in Offsets, count \in Counts,
          format \in SearchFormats, e \in E :
           Ran(tsearch(World(e), db, query, offset, count, format, Answer(1, 2)),
               "tsearch",
               [db |-> db, query |-> query, offset |-> offset, count |-> count,
                format |-> format])

Convert(E) ==
    /\ call = NoCall
    /\ \E data \in {Text(<<"LOCUS">>), Handle(<<"LOCUS">>)}, e \in E :
           Ran(tconvert(World(e), data, <<"genbank">>, <<"fasta">>), "tconvert",
               [data |-> data, in_format |-> <<"genbank">>, out_format |-> <<"fasta">>])

Next ==
    \/ Fetch(Envs(4, Refusal))
    \/ SearchCount(Envs(2, Refusal))
    \/ Search(Envs(2, Refusal))
    \/ Convert(Envs(1, Refusal))
    \/ Return

Spec == Init /\ [][Next]_vars

(* The throttle: time passes between the calls and in the sleeps.          *)

NextThrottle ==
    \/ Tick
    \/ SearchCount(TimedEnvs(2, Refusal))
    \/ Convert(TimedEnvs(1, Refusal))
    \/ Return

SpecThrottle == Init /\ [][NextThrottle]_vars

(* _open called from several threads.  A thread runs _open statement by    *)
(* statement; the statements of the threads interleave.  A statement takes *)
(* no time and a sleep takes the time it was asked for: time passes only   *)
(* when every thread in _open is asleep.                                   *)

ThreadUrl == ConvertUrl(<<"genbank">>, <<"fasta">>)

\* the thread is in _open and has a statement to run now
Running(t) ==
    /\ threads[t].pc # "idle"
    /\ (threads[t].pc = "sleeping") => (threads[t].wake <= clock)

\* line 252: current = time.time()
ThreadTime(t) ==
    /\ threads[t].pc = "idle"
    /\ threads' = [threads EXCEPT ![t] = [Idle EXCEPT !.pc = "timed", !.current = clock]]
    /\ UNCHANGED <<clock, previous, _search_db_names, _fetch_db_names,
                   _fetch_db_fields, _fetch_db_formats, call, nDisc, lastDispatch,
                   shortestGap, iter, files, io>>

\* line 253: wait = _open.previous + delay - current
ThreadWait(t) ==
    /\ threads[t].pc = "timed"
    /\ threads' = [threads EXCEPT ![t].pc = "waited",
                                  ![t].wait = previous + Delay - threads[t].current]
    /\ UNCHANGED <<clock, previous, _search_db_names, _fetch_db_names,
                   _fetch_db_fields, _fetch_db_formats, call, nDisc, lastDispatch,
                   shortestGap, iter, files, io>>

\* lines 254-255: time.sleep(wait) is entered, and it returns
ThreadSleep(t) ==
    /\ \/ /\ threads[t].pc = "waited"
          /\ threads[t].wait > 0
          /\ threads' = [threads EXCEPT ![t].pc = "sleeping",
                                        ![t].wake = clock + threads[t].wait]
       \/ /\ threads[t].pc = "sleeping"
          /\ threads[t].wake <= clock
          /\ threads' = [threads EXCEPT ![t].pc = "woken"]
    /\ UNCHANGED <<clock, previous, _search_db_names, _fetch_db_names,
                   _fetch_db_fields, _fetch_db_formats, call, nDisc, lastDispatch,
                   shortestGap, iter, files, io>>

\* lines 256 and 258: _open.previous = current + wait, or current
ThreadStamp(t) ==
    /\ \/ /\ threads[t].pc = "woken"
          /\ previous' = threads[t].current + threads[t].wait
       \/ /\ threads[t].pc = "waited"
          /\ threads[t].wait <= 0
          /\ previous' = threads[t].current
    /\ threads' = [threads EXCEPT ![t].pc = "stamped"]
    /\ UNCHANGED <<clock, _search_db_names, _fetch_db_names, _fetch_db_fields,
                   _fetch_db_formats, call, nDisc, lastDispatch, shortestGap, iter,
                   files, io>>

\* lines 261-297: the request, and the response to the caller
ThreadOpen(t) ==
    /\ threads[t].pc = "stamped"
    /\ \E e \in Envs(1, Refusal) :
           Store(Reply(urlopen(World(e), ThreadUrl, Some([data |-> <<"LOCUS">>]),
                               <<"converted", NL>>),
                       ThreadUrl))
    /\ threads' = [threads EXCEPT ![t] = Idle]
    /\ UNCHANGED <<call, iter, files, io>>

\* time passes
ThreadTick ==
    /\ clock < MaxClock
    /\ \A t \in Threads : ~Running(t)
    /\ clock' = clock + 1
    /\ UNCHANGED <<previous, _search_db_names, _fetch_db_names, _fetch_db_fields,
                   _fetch_db_formats, call, nDisc, lastDispatch, shortestGap, iter,
                   threads, files, io>>

NextThreads ==
    \/ \E t \in Threads :
           ThreadTime(t) \/ ThreadWait(t) \/ ThreadSleep(t) \/ ThreadStamp(t)
               \/ ThreadOpen(t)
    \/ ThreadTick

SpecThreads == Init /\ [][NextThreads]_vars

-----------------------------------------------------------------------------
(* tsearch_iter: the generator object.  Calling tsearch_iter creates it;   *)
(* each next() runs its body up to the next yield, its end or an error.    *)
(* A step of the body gives <<the module record, the generator>>.          *)

Batches == 1..MaxBatch

\* the generator ends with the exception exc
IterRaise(g, exc) == [g EXCEPT !.state = "raised", !.exc = exc]

\* IterYield without the assertion on the number of identifiers
IterYield_noassert(r, g, ids) ==
    <<r, [g EXCEPT !.state = "suspended", !.ids = ids, !.i = 1,
                   !.yielded = Append(@, ids[1])]>>

\* lines 168-171: the assertion on the identifiers of a window of g.batch, and
\* the yield of the first of them
IterYield(r, g, ids) ==
    IF Len(ids) # g.batch
    THEN <<r, IterRaise(g, Some([type |-> "AssertionError",
                                 msg |-> <<"Got ", ToString(Len(ids)), ", expected ",
                                           ToString(g.batch)>>]))>>
    ELSE <<r, [g EXCEPT !.state = "suspended", !.ids = ids, !.i = 1,
                        !.yielded = Append(@, ids[1])]>>

\* line 167: ids of the response r of tsearch
IterWindow(r, g) ==
    IF ~ok(r) THEN <<r, IterRaise(g, r.exc)>>
    ELSE IterYield(r, g, split(strip(read(r.ret[1]))))

\* IterLoop without batch = min(batch, remain)
IterLoop_unclamped(w, g, n) ==
    IF g.remain = 0
    THEN <<w, [g EXCEPT !.state = "done"]>>
    ELSE IterWindow(tsearch(w, g.db, g.query, Some(g.offset), Some(g.batch), <<>>,
                            Answer(g.offset, n)),
                    g)

\* lines 165-171, from the loop test to the first yield of a window; n is
\* the number of identifiers the service answers the window with
IterLoop(w, g, n) ==
    IF g.remain = 0
    THEN <<w, [g EXCEPT !.state = "done"]>>
    ELSE IterWindow(tsearch(w, g.db, g.query, Some(g.offset),
                            Some(Min(g.batch, g.remain)), <<>>, Answer(g.offset, n)),
                    [g EXCEPT !.batch = Min(g.batch, g.remain)])

\* IterCounted without the test for no result, and with remain one too many
IterCounted_offbyone(r, g, n) ==
    IF ~ok(r) THEN <<r, IterRaise(g, r.exc)>>
    ELSE IterLoop(r, [g EXCEPT !.count = r.ret, !.remain = r.ret[1] + 1,
                               !.offset = 1], n)

\* lines 160-164: count is the value r of tsearch_count
IterCounted(r, g, n) ==
    IF ~ok(r) THEN <<r, IterRaise(g, r.exc)>>
    ELSE IF r.ret[1] = 0 THEN <<r, [g EXCEPT !.state = "done", !.count = r.ret]>>
    ELSE IterLoop(r, [g EXCEPT !.count = r.ret, !.remain = r.ret[1], !.offset = 1], n)

\* lines 160-171: the first next()
IterStart(w, g, total, n) == IterCounted(tsearch_count(w, g.db, g.query, total), g, n)

\* IterResume that advances by the batch size of the call, not of the window
IterResume_callbatch(w, g, n) ==
    IF g.i < Len(g.ids)
    THEN <<w, [g EXCEPT !.i = @ + 1, !.yielded = Append(@, g.ids[g.i + 1])]>>
    ELSE IterLoop(w, [g EXCEPT !.offset = @ + g.args.batch,
                               !.remain = @ - g.args.batch], n)

\* IterResume without offset += batch
IterResume_sameoffset(w, g, n) ==
    IF g.i < Len(g.ids)
    THEN <<w, [g EXCEPT !.i = @ + 1, !.yielded = Append(@, g.ids[g.i + 1])]>>
    ELSE IterLoop(w, [g EXCEPT !.remain = @ - g.batch], n)

\* lines 170-173: a next() of the generator suspended at its yield
IterResume(w, g, n) ==
    IF g.i < Len(g.ids)
    THEN <<w, [g EXCEPT !.i = @ + 1, !.yielded = Append(@, g.ids[g.i + 1])]>>
    ELSE IterLoop(w, [g EXCEPT !.offset = @ + g.batch, !.remain = @ - g.batch], n)

\* tsearch_iter(db, query, batch): no line of the body runs yet
IterCreate ==
    /\ iter = NoIter
    /\ \E db \in DBs, query \in Queries, batch \in Batches :
           iter' = [state |-> "created", db |-> db, query |-> query, batch |-> batch,
                    count |-> None, remain |-> 0, offset |-> 0, ids |-> <<>>, i |-> 0,
                    exc |-> None,
                    body |-> None,       \* history: the body of the last response
                    args |-> [db |-> db, query |-> query, batch |-> batch],
                    yielded |-> <<>>,    \* history: the identifiers yielded
                    sent |-> <<>>,       \* history: the requests of the generator
                    unclosed |-> 0]      \* history: handles read and left open
    /\ UNCHANGED <<clock, previous, _search_db_names, _fetch_db_names,
                   _fetch_db_fields, _fetch_db_formats, call, nDisc, lastDispatch,
                   shortestGap, threads, files, io>>

\* the next() ran to r: the module and the generator are as it leaves them.
\* A handle the generator has read and not closed is closed when the runtime
\* collects it, which it may do at once or not at all.
Stepped(r) ==
    /\ Store(r[1])
    /\ \E collected \in SUBSET r[1].open :
           iter' = [r[2] EXCEPT !.sent = @ \o r[1].sent,
                               !.body = IF r[1].sent = <<>> THEN @ ELSE r[1].body,
                               !.unclosed = @ + Cardinality(r[1].open \ collected)]
    /\ UNCHANGED <<call, threads, files, io>>

IterNext ==
    /\ iter.state \in {"created", "suspended"}
    /\ \E e \in Envs(3, ErrorBodies), total \in 0..MaxTotal, n \in 0..(MaxBatch + 1) :
           Stepped(IF iter.state = "created"
                   THEN IterStart(World(e), iter, total, n)
                   ELSE IterResume(World(e), iter, n))

NextPager == IterCreate \/ IterNext

SpecPager == Init /\ [][NextPager]_vars

(* tsearch_iter against a service that holds the result list Answer(1, T)  *)
(* of the query: it reports the count T, answers the window (o, c) with    *)
(* the elements o .. o+c-1 of the list, and the search without a window    *)
(* with the whole list.                                                    *)

\* n is the number of identifiers the service holds for the window url asks
HeldFor(url, db, query, T, n) ==
    \A o \in 1..(MaxTotal + 1), c \in 1..(MaxBatch + 1) :
        (url = WindowUrl(db, query, Some(o), Some(c), <<>>))
            => (n = IF T - o + 1 <= 0 THEN 0 ELSE Min(c, T - o + 1))

\* the next() ran to r against the list of T identifiers
SteppedOnList(r, T, n) ==
    /\ \A k \in 1..Len(r[1].sent) :
           HeldFor(r[1].sent[k].url, r[2].args.db, r[2].args.query, T, n)
    /\ Stepped(r)

IterNextOnList ==
    /\ iter.state \in {"created", "suspended"}
    /\ \E e \in Envs(3, {}), total \in 0..MaxTotal, n \in 0..(MaxBatch + 1) :
           SteppedOnList(IF iter.state = "created"
                         THEN IterStart(World(e), iter, total, n)
                         ELSE IterResume(World(e), iter, n),
                         IF iter.state = "created" THEN total ELSE iter.count[1],
                         n)

\* lines 339-344: the caller searches the same query without a window
SearchAll ==
    /\ call = NoCall
    /\ iter.state # "none"
    /\ iter.count # None
    /\ \E e \in Envs(1, {}) :
           Ran(tsearch(World(e), iter.args.db, iter.args.query, None, None, <<>>,
                       Answer(1, iter.count[1])),
               "tsearch",
               [db |-> iter.args.db, query |-> iter.args.query, offset |-> None,
                count |-> None, format |-> <<>>])

NextService == IterCreate \/ IterNextOnList \/ SearchAll

SpecService == Init /\ [][NextService]_vars

-----------------------------------------------------------------------------
(* _open on the bodies of a service: some lines of text, then a tail of    *)
(* the tokens _open looks for.                                             *)

BodyTokens == {SP, NL, ErrorMark, ErrorTitle, "text"}

RECURSIVE Tails(_)
Tails(n) ==
    IF n = 0 THEN {<<>>}
    ELSE Tails(n - 1) \cup {Append(t, c) : t \in Tails(n - 1), c \in BodyTokens}

RECURSIVE Pad(_)
Pad(k) == IF k = 0 THEN <<>> ELSE <<"text", NL>> \o Pad(k - 1)

Bodies == {Pad(k) \o t : k \in 0..MaxPad, t \in Tails(MaxTail)}

GateUrl(db) == EntryUrl(db, Str(<<"X52960">>), <<>>, <<>>)

OpenUrl ==
    /\ call = NoCall
    /\ \E body \in Bodies, db \in DBs, e \in Envs(1, {}) :
           Ran(_open(World(e), GateUrl(db), None, body), "_open",
               [url |-> GateUrl(db), post |-> None])

NextGate == OpenUrl \/ Return

SpecGate == Init /\ [][NextGate]_vars

-----------------------------------------------------------------------------
(* The calls of Bio.Ontology.IO: on a file that exists, on a name without  *)
(* a file, and on a handle the caller holds.                               *)

Targets == {FileName("new.obo"), FileName("old.obo"), HandleObject("stream")}

Formats == {Format("obo"), Format("gml"), Format("png"), Format("xml"), Format(""),
            NotAString}

Documents == {"terms"}

\* a call has run: the file system is as the call left it
Wrote(o, op, args) ==
    /\ \A k \in DOMAIN o.files :
            o.files[k] # None => Len(o.files[k][1]) <= MaxWritten
    /\ files' = o.files
    /\ io' = [op |-> op, args |-> args, pre |-> files, exc |-> o.exc,
              opened |-> o.opened, invoked |-> o.invoked]
    /\ UNCHANGED <<clock, previous, _search_db_names, _fetch_db_names,
                   _fetch_db_fields, _fetch_db_formats, call, nDisc, lastDispatch,
                   shortestGap, iter, threads>>

Write ==
    \E data \in Documents, handle \in Targets, file_format \in Formats :
        Wrote(write(IoWorld, data, handle, file_format, None), "write",
              [data |-> data, handle |-> handle, file_format |-> file_format,
               extra |-> None])

PrettyPrint ==
    \E data \in Documents, handle \in Targets, file_format \in Formats,
       params \in {None, Some("dpi")} :
        Wrote(pretty_print(IoWorld, data, handle, file_format, params),
              "pretty_print",
              [data |-> data, handle |-> handle, file_format |-> file_format,
               extra |-> params])

NextOntology == Write \/ PrettyPrint

SpecOntology == Init /\ [][NextOntology]_vars

-----------------------------------------------------------------------------
(* Properties.                                                             *)

Raised(c, type) == c.exc # None /\ c.exc[1].type = type

Get(url) == [url |-> url, post |-> None]

\* C1: any two consecutive requests are dispatched at least the delay apart,
\* and after a dispatch _open.previous + delay is at least the time of that
\* dispatch plus the delay.
C1_MinimumInterval ==
    /\ (shortestGap # NoGap) => (shortestGap >= Delay)
    /\ (lastDispatch # None) => (previous + Delay >= lastDispatch[1] + Delay)

\* C2: for each cache key, at most one discovery request is ever answered:
\* the first lookup fetches the list and later lookups use the cache.
C2_OneDiscoveryPerKey == \A u \in DiscoveryUrls : nDisc[u] <= 1

\* the arguments tsearch must refuse: one of offset and count without the
\* other, or an offset or a count that is not positive
BadWindow(a) ==
    \/ (a.offset = None) # (a.count = None)
    \/ a.offset # None /\ a.count # None /\ (a.offset[1] <= 0 \/ a.count[1] <= 0)

\* C6: a tsearch call with a bad offset / count fails with ValueError, sends
\* no request and leaves the throttle state as it was, in every cache state.
C6_RejectedBeforeNetwork ==
    (call.op = "tsearch" /\ BadWindow(call.args))
        => (/\ Raised(call, "ValueError")
            /\ call.sent = <<>>
            /\ previous = call.pre.previous)

Unlisted(name, list) == name # <<>> /\ name \notin Range(list)

EntryRequest(a) == Get(EntryUrl(a.db, a.id, a.format, a.field))

\* a tfetch call on a database of the fetch database list, in which no
\* request failed
FetchSupported(c) ==
    /\ c.op = "tfetch"
    /\ c.args.db \in Range(ServerEntryDbs)
    /\ ~Raised(c, "IOError")

C8_UnsupportedDbRefused ==
    (/\ call.op = "tfetch"
     /\ _fetch_db_names # None
     /\ call.args.db \notin Range(_fetch_db_names[1]))
        => (/\ Raised(call, "ValueError")
            /\ EntryRequest(call.args) \notin Range(call.sent)
            /\ call.sent = IF call.pre._fetch_db_names = None
                           THEN <<Get(EntryDbsUrl)>> ELSE <<>>)

C8_Witness ==
    /\ call.op = "tfetch"
    /\ _fetch_db_names # None
    /\ call.args.db \notin Range(_fetch_db_names[1])
    /\ call.args.field # <<>>
    /\ call.args.format # <<>>
    /\ Raised(call, "ValueError")
    /\ call.sent = <<Get(EntryDbsUrl)>>

\* C9: tsearch and tsearch_count on a database that is not in the discovered
\* search database list warn and do not raise for it: the count request, and
\* the search request of a tsearch call with a good offset / count, is
\* dispatched.
C9_UnlistedSearchDbWarns ==
    (/\ call.op \in {"tsearch", "tsearch_count"}
     /\ _search_db_names # None
     /\ call.args.db \notin Range(_search_db_names[1])
     /\ ~Raised(call, "IOError"))
        => (/\ call.warned
            /\ (call.op = "tsearch_count")
                    => (/\ call.exc = None
                        /\ call.sent[Len(call.sent)]
                               = Get(CountUrl(call.args.db, call.args.query)))
            /\ (call.op = "tsearch" /\ ~BadWindow(call.args))
                    => (/\ call.exc = None
                        /\ call.sent[Len(call.sent)]
                               = Get(WindowUrl(call.args.db, call.args.query,
                                               call.args.offset, call.args.count,
                                               call.args.format)))
            /\ Raised(call, "ValueError") => BadWindow(call.args))

C9_Witness ==
    /\ call.op = "tsearch"
    /\ _search_db_names # None
    /\ call.args.db \notin Range(_search_db_names[1])
    /\ call.args.offset # None
    /\ call.warned
    /\ call.exc = None
    /\ call.pre._search_db_names # None
    /\ call.sent = <<Get(WindowUrl(call.args.db, call.args.query, call.args.offset,
                                   call.args.count, call.args.format))>>

-----------------------------------------------------------------------------
(* Properties of tsearch_iter.                                             *)

\* the window requests of the generator, in the order it sent them
WindowRequests(g) ==
    SelectSeq(g.sent,
              LAMBDA r : r.url \notin {SearchDbsUrl, CountUrl(g.args.db, g.args.query)})

CeilDiv(a, b) == (a + b - 1) \div b

\* the k-th window of a total T walked in batches of B
WindowOf(g, T, B, k) ==
    Get(WindowUrl(g.args.db, g.args.query, Some(1 + (k - 1) * B),
                  Some(Min(B, T - (k - 1) * B)), <<>>))

IsPrefix(s, t) == Len(s) <= Len(t) /\ s = SubSeq(t, 1, Len(s))

Counted(g) == g.state # "none" /\ g.count # None

\* C3: for a total T >= 1 and a batch size B, the k-th window request is
\* (1 + (k-1)*B, min(B, T - (k-1)*B)); a generator that ends has sent the
\* ceil(T/B) of them in this order and yielded T identifiers, and it raises
\* AssertionError only at a window that did not return as many identifiers
\* as requested.
C3_WindowsOfTotal ==
    (Counted(iter) /\ iter.count[1] >= 1)
        => LET T == iter.count[1]
               B == iter.args.batch
               windows == WindowRequests(iter)
               expected == [k \in 1..CeilDiv(T, B) |-> WindowOf(iter, T, B, k)]
           IN  /\ IsPrefix(windows, expected)
               /\ (iter.state = "done")
                    => (/\ windows = expected
                        /\ iter.yielded = Answer(1, T))
               /\ Raised(iter, "AssertionError")
                    => (Len(split(strip(iter.body[1]))) # iter.batch)

C3_Witness ==
    /\ Counted(iter)
    /\ iter.state = "done"
    /\ iter.args.batch = 2
    /\ iter.count[1] >= 3
    /\ iter.batch < iter.args.batch
    /\ Len(WindowRequests(iter)) = CeilDiv(iter.count[1], 2)
    /\ Len(iter.yielded) = iter.count[1]

\* C4: the generator never ends normally short of the total; it yields from
\* a window only when the window returned as many identifiers as requested;
\* when a window request fails or returns another number the generator
\* raises at that window, having yielded the earlier windows in order and
\* nothing of this one, and that request, sent once, is its last.
C4_RaisesAtFailingWindow ==
    Counted(iter)
        => LET windows == WindowRequests(iter)
               this == Get(WindowUrl(iter.args.db, iter.args.query, Some(iter.offset),
                                     Some(iter.batch), <<>>))
           IN  /\ (iter.state = "done") => (Len(iter.yielded) = iter.count[1])
               /\ (iter.state = "suspended")
                    => (/\ iter.ids = split(strip(iter.body[1]))
                        /\ Len(iter.ids) = iter.batch
                        /\ iter.yielded = Answer(1, iter.offset - 1 + iter.i))
               /\ (iter.state = "raised")
                    => (/\ iter.exc # None
                        /\ iter.yielded = Answer(1, iter.offset - 1)
                        /\ iter.sent[Len(iter.sent)] = this
                        /\ \A k \in 1..(Len(windows) - 1) : windows[k] # this)

C4_Witness ==
    /\ Counted(iter)
    /\ iter.state = "raised"
    /\ Raised(iter, "AssertionError")
    /\ iter.offset > 1
    /\ Len(split(strip(iter.body[1]))) < iter.batch
    /\ Len(iter.yielded) = iter.offset - 1

\* C5: when the count endpoint reports 0 the generator ends without a yield,
\* having sent the count request and no window request.
C5_EmptyResult ==
    (Counted(iter) /\ iter.count[1] = 0)
        => (/\ iter.state = "done"
            /\ iter.yielded = <<>>
            /\ WindowRequests(iter) = <<>>
            /\ iter.sent[Len(iter.sent)]
                   = Get(CountUrl(iter.args.db, iter.args.query)))

C5_Witness ==
    /\ Counted(iter)
    /\ iter.count[1] = 0
    /\ iter.state = "done"
    /\ iter.sent = <<Get(SearchDbsUrl), Get(CountUrl(iter.args.db, iter.args.query))>>

-----------------------------------------------------------------------------
(* Properties of the response gate.                                        *)

\* the part of a body _open inspects: its first SniffLines lines
InspectedPrefix(b) ==
    LET nls == {i \in 1..Len(b) : b[i] = NL}
    IN  IF Cardinality(nls) < SniffLines THEN b
        ELSE SubSeq(b, 1, CHOOSE i \in nls :
                              Cardinality({j \in nls : j <= i}) = SniffLines)

\* the error _open raised, by the head of its message
Failure(c) == IF c.exc = None THEN "none" ELSE c.exc[1].msg[1]

\* C10: an empty body raises the "no data" error, a body of one space the
\* "single space" error, a body that begins with "Error: " the error
\* message error with the text, another body whose inspected prefix holds
\* the error page title the "something went wrong" error; every other body
\* raises nothing and a handle is returned.
C10_Classification ==
    call.op = "_open"
        => LET b == call.body[1]
               p == InspectedPrefix(b)
               f == Failure(call)
           IN  IF b = <<>>
               THEN f = "TogoWS replied with no data:\n%s % url"
               ELSE IF b = <<SP>>
               THEN f = "TogoWS replied with just a single space:\n"
               ELSE IF b[1] = ErrorMark
               THEN /\ f = "TogoWS replied with an error message:\n\n"
                    /\ SubSeq(call.exc[1].msg, 2, Len(p) + 1) = p
               ELSE IF \E i \in 1..Len(p) : p[i] = ErrorTitle
               THEN f = "TogoWS replied: We're sorry, but something went wrong:\n"
               ELSE /\ call.exc = None
                    /\ call.ret # None

C10_Witness ==
    /\ call.op = "_open"
    /\ Len(call.body[1]) > Len(InspectedPrefix(call.body[1]))
    /\ \E i \in 1..Len(call.body[1]) : call.body[1][i] = ErrorTitle
    /\ call.exc = None
    /\ call.ret # None

-----------------------------------------------------------------------------
(* Properties of the handle _open returns.                                 *)

\* the number of lines of a body (a last line without newline counts)
Lines(b) ==
    Cardinality({i \in 1..Len(b) : b[i] = NL})
        + (IF b # <<>> /\ b[Len(b)] # NL THEN 1 ELSE 0)

\* C11: for every body that passes validation, of fewer than 10, of 10 or of
\* more than 10 lines, reading the handle _open returns gives the body, whole
\* and in its order.
C11_PushbackRoundTrip ==
    (call.op = "_open" /\ call.exc = None)
        => (read(call.ret[1]) = call.body[1])

C11_Witness ==
    /\ call.op = "_open"
    /\ call.exc = None
    /\ Lines(call.body[1]) > SniffLines
    /\ Len(call.ret[1].saved) = SniffLines
    /\ call.ret[1].stream # <<>>
    /\ read(call.ret[1]) = call.body[1]

-----------------------------------------------------------------------------
(* Properties of tsearch_iter against a held result list.                  *)

\* C12: against a service that holds a result list of T identifiers and
\* answers each window with its part of the list, the generator raises
\* nothing, yields the list in order and, once it has ended, has yielded the
\* whole list, whatever the batch size; the list is what the search without
\* a window returns.
C12_BatchSizeIndependent ==
    Counted(iter)
        => (/\ iter.state # "raised"
            /\ IsPrefix(iter.yielded, Answer(1, iter.count[1]))
            /\ (iter.state = "done") => (iter.yielded = Answer(1, iter.count[1]))
            /\ (iter.state = "done" /\ call.op = "tsearch" /\ call.exc = None)
                    => (split(strip(read(call.ret[1]))) = iter.yielded))

C12_Witness ==
    /\ Counted(iter)
    /\ iter.state = "done"
    /\ iter.args.batch = 2
    /\ iter.count[1] = 3
    /\ iter.yielded = Answer(1, 3)
    /\ call.op = "tsearch"
    /\ call.exc = None
    /\ split(strip(read(call.ret[1]))) = iter.yielded

-----------------------------------------------------------------------------
(* Properties of the identifiers of tfetch.                                *)

\* the string argument that writes a list of identifiers with commas
CommaString(id) == Str(join(<<",">>, id.v))

\* C13: the entry request of a tfetch call with a list of identifiers is the
\* entry request of the call with the comma-joined string of the identifiers,
\* for the same database, field and format.
C13_ListAsCommaString ==
    (call.op = "tfetch" /\ call.exc = None)
        => (/\ call.sent[Len(call.sent)].post = None
            /\ call.args.id.list
                    => (call.sent[Len(call.sent)].url
                            = EntryUrl(call.args.db, CommaString(call.args.id),
                                       call.args.format, call.args.field))
            /\ (~call.args.id.list)
                    => (call.sent[Len(call.sent)].url
                            = EntryUrl(call.args.db, call.args.id,
                                       call.args.format, call.args.field)))

C13_Witness ==
    /\ call.op = "tfetch"
    /\ call.exc = None
    /\ call.args.id.list
    /\ Len(call.args.id.v) = 2
    /\ call.args.field # <<>>
    /\ call.args.format # <<>>
    /\ CommaString(call.args.id) \in FetchIds
    /\ call.sent[Len(call.sent)].url
           = <<"http://togows.dbcls.jp/entry/", "ddbj", "/", "A1AG1_HUMAN", ",",
               "A1AG1_MOUSE", "/">> \o call.args.field \o <<".">> \o call.args.format

-----------------------------------------------------------------------------
(* Properties of _open under concurrent callers.                           *)

\* C14: whatever the interleaving of the threads that call _open, no two
\* requests are dispatched closer together than the delay.
C14_AtomicReservation == (shortestGap # NoGap) => (shortestGap >= Delay)

-----------------------------------------------------------------------------
(* Properties of the caches.                                               *)

\* C15: a populated cache entry is never overwritten: the cached field list
\* of a database is the list its fields discovery returned, and the cached
\* format list the list its formats discovery returned.
C15_CacheNeverOverwritten ==
    \A db \in DBs :
        /\ (_fetch_db_fields[db] # None) => (_fetch_db_fields[db] = Some(ServerFields))
        /\ (_fetch_db_formats[db] # None)
                => (_fetch_db_formats[db] = Some(ServerFormats))

-----------------------------------------------------------------------------
(* Properties of the wait of _open.                                        *)

\* the wait _open computes when it is called in the state the call started in
WaitOf(c) == c.pre.previous + Delay - c.pre.clock

-----------------------------------------------------------------------------
(* Properties of the cursor of tsearch_iter.                               *)

\* the generator is in its loop, at the window (offset, batch)
InWindow(g) == g.state \in {"suspended", "raised"}

\* C17: once the loop is entered (a total T >= 1), offset >= 1,
\* 0 <= remain <= T and offset + remain = T + 1, and offset - 1 identifiers
\* were yielded before the window at offset; the generator has left the loop
\* exactly when remain = 0, that is offset = T + 1, and the window it asks
\* for starts and ends within 1 .. T.
C17_CursorInvariant ==
    (Counted(iter) /\ iter.count[1] >= 1)
        => (/\ iter.offset >= 1
            /\ iter.remain \in 0..iter.count[1]
            /\ iter.offset + iter.remain = iter.count[1] + 1
            /\ Len(iter.yielded)
                   = iter.offset - 1 + (IF iter.state = "suspended" THEN iter.i ELSE 0)
            /\ (iter.state = "done") <=> (iter.remain = 0)
            /\ InWindow(iter)
                    => (/\ iter.batch >= 1
                        /\ iter.offset + iter.batch - 1 <= iter.count[1]
                        /\ iter.sent[Len(iter.sent)]
                               = Get(WindowUrl(iter.args.db, iter.args.query,
                                               Some(iter.offset), Some(iter.batch),
                                               <<>>))))

C17_Witness ==
    /\ Counted(iter)
    /\ iter.count[1] = MaxTotal
    /\ iter.args.batch = MaxBatch
    /\ iter.state = "suspended"
    /\ iter.offset = MaxBatch + 1
    /\ iter.batch < iter.args.batch
    /\ iter.remain = iter.batch
    /\ Len(iter.yielded) = iter.offset

-----------------------------------------------------------------------------
(* Properties of the requests of _open.                                    *)

\* the requests of a call in which no request fails, one for each _open
Requests(c) ==
    IF c.op = "tconvert"
    THEN <<[url |-> ConvertUrl(c.args.in_format, c.args.out_format),
            post |-> Some([data |-> c.args.data.v])]>>
    ELSE (IF c.pre._search_db_names = None THEN <<Get(SearchDbsUrl)>> ELSE <<>>)
             \o <<Get(CountUrl(c.args.db, c.args.query))>>

\* C18: _open stamps the throttle before it sends its request and sends it
\* not earlier than the stamp; each _open of a call sends one request, a GET
\* without post data or the POST of tconvert with the data; a request whose
\* body is an error is the last of the call, sent once, and the throttle was
\* stamped for it.
C18_OneRequestPerOpen ==
    (call.op \in {"tconvert", "tsearch_count"})
        => (/\ call.sent # <<>>
            /\ IsPrefix(call.sent, Requests(call))
            /\ lastDispatch = Some(clock)
            /\ previous <= clock
            /\ previous >= call.pre.clock
            /\ (call.exc = None) => (call.sent = Requests(call))
            /\ (call.exc # None)
                    => (/\ Raised(call, "IOError")
                        /\ call.body[1] \in Refusal
                        /\ call.ret = None))

C18_Witness ==
    /\ call.op = "tsearch_count"
    /\ call.pre._search_db_names = None
    /\ Raised(call, "IOError")
    /\ call.sent = Requests(call)
    /\ previous > call.pre.clock
    /\ clock > previous

-----------------------------------------------------------------------------
(* Properties of the error messages of _open.                              *)

\* str.endswith
endswith(s, suffix) ==
    /\ Len(s) >= Len(suffix)
    /\ SubSeq(s, Len(s) - Len(suffix) + 1, Len(s)) = suffix

\* C19: the message of every error _open raises for the body of a response
\* holds the URL of the request, and for a body that begins with "Error: "
\* the text of the body too.
C19_ErrorCarriesUrl ==
    (call.op = "_open" /\ call.exc # None)
        => (/\ endswith(call.exc[1].msg, call.args.url)
            /\ (call.body[1] # <<>> /\ call.body[1][1] = ErrorMark)
                    => (SubSeq(call.exc[1].msg, 2,
                               Len(InspectedPrefix(call.body[1])) + 1)
                            = InspectedPrefix(call.body[1])))

-----------------------------------------------------------------------------
(* Properties of the handles.                                              *)

\* the handle a call returns to its caller, by request
Returned(c) ==
    IF c.op \in {"tfetch", "tsearch", "tconvert", "_open"} /\ c.exc = None
    THEN {Len(c.sent)} ELSE {}

\* C20: the handles the library reads itself (discovery lists, the count,
\* the windows of tsearch_iter) are closed when the operation is over: a call
\* leaves open only the handle it returns, and the generator leaves none.
C20_InternalHandlesClosed ==
    /\ call.open = Returned(call)
    /\ (iter.state # "none") => (iter.unclosed = 0)

-----------------------------------------------------------------------------
(* Properties of Bio.Ontology.IO.                                          *)

\* a call with a non-empty string file_format that its registry does not hold
Rejected(c) ==
    /\ c.op \in {"write", "pretty_print"}
    /\ c.args.file_format.basestring
    /\ c.args.file_format.v # ""
    /\ c.args.file_format.v
           \notin DOMAIN (IF c.op = "write" THEN _FormatToWriter ELSE _FormatToPrinter)

\* C21: write and pretty_print called with a non-empty string file_format
\* that is not in their registry raise ValueError, invoke no writer or
\* printer and leave the target as it was: a file name is not opened for
\* writing, and its file is neither created nor truncated.
C21_RejectedLeavesTarget ==
    Rejected(io)
        => (/\ Raised(io, "ValueError")
            /\ io.invoked = <<>>
            /\ io.opened = <<>>
            /\ files = io.pre)

====
